---- MODULE Spec2Model ----
(***************************************************************************)
(* Model of Splash::Timer (src/include/timer.h): named duration            *)
(* measurement, pacing wait, the publish/consume duration hand-off and the *)
(* master clock.  Every public method is cut into the steps at which it    *)
(* touches shared state, so that calls of several threads interleave the   *)
(* way pre-emptive threads do.                                             *)
(*                                                                         *)
(* unsigned long long values are represented by their two's-complement     *)
(* signed representative: a negative integer r stands for 2^64 + r, the    *)
(* result of an unsigned subtraction that wrapped around.                  *)
(*                                                                         *)
(* The plain members _isDurationSet, _durationThreadId and _enabled are    *)
(* read and written without synchronisation; each such access is one step  *)
(* and the steps of a thread are taken in program order, so a racing read  *)
(* sees the value before or after any racing write.                        *)
(*                                                                         *)
(* The model is checked per facility (SpecTimer, SpecHandoff, SpecProtocol,*)
(* SpecSeq, SpecClock); Spec, in which every thread makes every call, is   *)
(* their union.                                                            *)
(***************************************************************************)
EXTENDS Integers, Sequences, FiniteSets, TLC

\* Last value of the steady clock the model lets the clock reach.
MaxTime == 2
\* nap.tv_nsec = (duration - elapsed) * 1e3 : microseconds to nanoseconds.
NsecPerUsec == 1000
\* nanosleep() rejects a tv_nsec outside 0..999999999 with EINVAL.
MaxNsec == 999999999

\* The threads calling into the Timer singleton.
Threads == {1, 2}
NoThread == 0
Million == 1000000
FramesPerSecond == 120
Names == {"frame", "sync"}
\* Durations handed to waitUntilDuration and to operator>>(duration), in us.
Targets == {0, 2, 1000000}
\* Values handed to setDuration.
PeerDurations == {5, 7}
\* Sequences handed to setMasterClock: lengths 0, 7, 8, 8 and 9.
\* values the caller's output variables hold before a getMasterClock call
CallerValues == { << >>, <<9>> }
CallerTimes == { [hi |-> 0, lo |-> 7] }

\* std::chrono units a caller instantiates getMasterClock<T> with, as the
\* number of microseconds in one unit: microseconds, milliseconds, seconds
Units == {1, 1000, 1000000}

ClockInputs ==
    { << >>,
      <<0, 0, 1, 2, 3, 4, 60>>,
      <<0, 0, 1, 2, 3, 4, 60, 0>>,
      <<5, 5, 0, 0, 0, 1, 0, 1>>,
      <<7, 9, 1, 2, 3, 4, 60, 0>>,
      <<0, 0, 1, 2, 3, 4, 60, 0, 0>> }

VARIABLES
    now,               \* std::chrono::steady_clock, in microseconds
    enabled,           \* _enabled
    timeMap,           \* _timeMap: name -> start timestamp
    durationMap,       \* _durationMap: name -> last duration
    currentDuration,   \* _currentDuration
    isDurationSet,     \* _isDurationSet
    durationThreadId,  \* _durationThreadId
    timerMutex,        \* _timerMutex: TRUE when locked
    clockMutex,        \* _clockMutex: TRUE when locked
    clock,             \* _clock
    pc,                \* per thread: the statement it executes next
    op,                \* per thread: the public method it was called with
    name,              \* per thread: argument name
    duration,          \* per thread: argument / local duration
    currentTime,       \* per thread: local currentTime
    elapsed,           \* per thread: local elapsed
    nap,               \* per thread: nap.tv_nsec
    wake,              \* per thread: time at which nanosleep may return
    overtime,          \* per thread: local overtime / returned bool
    since,             \* per thread: value returned by sinceLastSeen
    clockArg,          \* per thread: argument of setMasterClock
    clockOut,          \* per thread: getMasterClock's output clock / local copy
    clockRet,          \* per thread: value returned by getMasterClock
    timeOut,           \* per thread: getMasterClock's output time
    paused,            \* per thread: getMasterClock's output paused
    unit,              \* per thread: template parameter T, microseconds per unit
    published,         \* history: value of the thread's pending publish, -1 if none
    mutexOwner         \* history: thread that locked _timerMutex, NoThread if free

shared == <<enabled, timeMap, durationMap>>
slot == <<currentDuration, isDurationSet, durationThreadId>>
locks == <<timerMutex, mutexOwner>>
clockLocals == <<clockOut, clockRet, timeOut, paused, unit>>
clocks == <<clockMutex, clock, clockArg, clockLocals>>
locals == <<currentTime, elapsed, nap, wake, overtime, since>>
vars == <<now, enabled, timeMap, durationMap, currentDuration, isDurationSet,
          durationThreadId, timerMutex, clockMutex, clock, pc, op, name,
          duration, currentTime, elapsed, nap, wake, overtime, since,
          clockArg, clockOut, clockRet, timeOut, paused, unit, published,
          mutexOwner>>

----------------------------------------------------------------------------
(* unsigned long long arithmetic on signed representatives *)

\* a < b as unsigned 64-bit values
ULess(a, b) == IF (a < 0) = (b < 0) THEN a < b ELSE b < 0

\* std::max(a, b) on unsigned 64-bit values
UMax(a, b) == IF ULess(a, b) THEN b ELSE a

\* a - b modulo 2^64
USub(a, b) == a - b

\* _durationMap lookup of getDuration
getDuration(n) == IF n \in DOMAIN durationMap THEN durationMap[n] ELSE 0

\* map[name] = value, whether or not the entry exists
MapPut(map, n, v) == [k \in DOMAIN map \cup {n} |-> IF k = n THEN v ELSE map[k]]

----------------------------------------------------------------------------
Init ==
    /\ now = 0
    /\ enabled = TRUE
    /\ timeMap = << >>
    /\ durationMap = << >>
    /\ currentDuration = 0
    /\ isDurationSet = FALSE
    /\ durationThreadId = NoThread
    /\ timerMutex = FALSE
    /\ clockMutex = FALSE
    /\ clock = << >>
    /\ pc = [t \in Threads |-> "idle"]
    /\ op = [t \in Threads |-> "none"]
    /\ name = [t \in Threads |-> ""]
    /\ duration = [t \in Threads |-> 0]
    /\ currentTime = [t \in Threads |-> 0]
    /\ elapsed = [t \in Threads |-> 0]
    /\ nap = [t \in Threads |-> 0]
    /\ wake = [t \in Threads |-> 0]
    /\ overtime = [t \in Threads |-> FALSE]
    /\ since = [t \in Threads |-> 0]
    /\ clockArg = [t \in Threads |-> << >>]
    /\ clockOut = [t \in Threads |-> << >>]
    /\ clockRet = [t \in Threads |-> FALSE]
    /\ timeOut = [t \in Threads |-> [hi |-> 0, lo |-> 0]]
    /\ paused = [t \in Threads |-> FALSE]
    /\ unit = [t \in Threads |-> 1]
    /\ published = [t \in Threads |-> -1]
    /\ mutexOwner = NoThread

----------------------------------------------------------------------------
Set(f, t, v) == [f EXCEPT ![t] = v]

\* Spinlock::lock() succeeds only on a free lock; it is not recursive.
SpinlockIsFree(m) == m = FALSE

\* where a thread continues when the start() it called returns
AfterStart(o) == IF o = "open" THEN "openZero" ELSE "done"

\* where a thread continues when the stop() it called returns
AfterStop(o) == IF o = "sinceLastSeen" THEN "slsGet" ELSE "done"

(* start(name), lines 74-77: the _enabled test and the clock sample *)
StartBegin(t, n, o) ==
    /\ op' = Set(op, t, o)
    /\ name' = Set(name, t, n)
    /\ IF enabled
         THEN /\ pc' = Set(pc, t, "startWrite")
              /\ currentTime' = Set(currentTime, t, now)
         ELSE /\ pc' = Set(pc, t, AfterStart(o))
              /\ UNCHANGED currentTime

\* variant of StopBegin: stop does not test _enabled
StopBegin_NoGate(t, n, o) ==
    /\ op' = Set(op, t, o)
    /\ name' = Set(name, t, n)
    /\ IF n \in DOMAIN timeMap
         THEN pc' = Set(pc, t, "stopSample")
         ELSE pc' = Set(pc, t, AfterStop(o))

(* stop(name), lines 91-95: the _enabled test and _timeMap.find *)
StopBegin(t, n, o) ==
    /\ op' = Set(op, t, o)
    /\ name' = Set(name, t, n)
    /\ IF enabled /\ n \in DOMAIN timeMap
         THEN pc' = Set(pc, t, "stopSample")
         ELSE pc' = Set(pc, t, AfterStop(o))

\* variant of WaitBegin: the name is not looked up before the wait
WaitBegin_NoFind(t, n, d, o) ==
    /\ op' = Set(op, t, o)
    /\ name' = Set(name, t, n)
    /\ duration' = Set(duration, t, d)
    /\ overtime' = Set(overtime, t, FALSE)
    /\ IF enabled
         THEN pc' = Set(pc, t, "waitSample")
         ELSE pc' = Set(pc, t, "done")

(* waitUntilDuration(name, duration), lines 115-119 *)
WaitBegin(t, n, d, o) ==
    /\ op' = Set(op, t, o)
    /\ name' = Set(name, t, n)
    /\ duration' = Set(duration, t, d)
    /\ overtime' = Set(overtime, t, FALSE)
    /\ IF enabled /\ n \in DOMAIN timeMap
         THEN pc' = Set(pc, t, "waitSample")
         ELSE pc' = Set(pc, t, "done")

----------------------------------------------------------------------------
(* the steady clock advances *)
Tick ==
    /\ now < MaxTime
    /\ now' = now + 1
    /\ UNCHANGED <<shared, slot, locks, clocks, locals, pc, op, name, duration, published>>

(* void start(const std::string& name) *)
Start(t, n) ==
    /\ pc[t] = "idle"
    /\ StartBegin(t, n, "start")
    /\ UNCHANGED <<now, shared, slot, locks, clocks, duration, elapsed, nap, wake,
                   overtime, since, published>>

StartWrite(t) ==
    /\ pc[t] = "startWrite"
    /\ timeMap' = MapPut(timeMap, name[t], currentTime[t])
    /\ pc' = Set(pc, t, AfterStart(op[t]))
    /\ UNCHANGED <<now, enabled, durationMap, slot, locks, clocks, locals, op, name,
                   duration, published>>

(* void stop(const std::string& name) *)
Stop(t, n) ==
    /\ pc[t] = "idle"
    /\ StopBegin(t, n, "stop")
    /\ UNCHANGED <<now, shared, slot, locks, clocks, locals, duration, published>>

StopSample(t) ==
    /\ pc[t] = "stopSample"
    /\ currentTime' = Set(currentTime, t, now)
    /\ pc' = Set(pc, t, "stopRecord")
    /\ UNCHANGED <<now, shared, slot, locks, clocks, op, name, duration, elapsed, nap,
                   wake, overtime, since, published>>

\* variant of StopRecord: an existing duration entry is not overwritten
StopRecord_KeepsFirst(t) ==
    /\ pc[t] = "stopRecord"
    /\ durationMap' = IF name[t] \in DOMAIN durationMap
                         THEN durationMap
                         ELSE MapPut(durationMap, name[t],
                                     USub(currentTime[t], timeMap[name[t]]))
    /\ pc' = Set(pc, t, AfterStop(op[t]))
    /\ UNCHANGED <<now, enabled, timeMap, slot, locks, clocks, locals, op, name,
                   duration, published>>

StopRecord(t) ==
    /\ pc[t] = "stopRecord"
    /\ durationMap' = MapPut(durationMap, name[t],
                             USub(currentTime[t], timeMap[name[t]]))
    /\ pc' = Set(pc, t, AfterStop(op[t]))
    /\ UNCHANGED <<now, enabled, timeMap, slot, locks, clocks, locals, op, name,
                   duration, published>>

(* bool waitUntilDuration(const std::string& name, unsigned long long duration) *)
WaitUntilDuration(t, n, d) ==
    /\ pc[t] = "idle"
    /\ WaitBegin(t, n, d, "waitUntilDuration")
    /\ UNCHANGED <<now, shared, slot, locks, clocks, currentTime, elapsed, nap, wake,
                   since, published>>

WaitSample(t) ==
    /\ pc[t] = "waitSample"
    /\ currentTime' = Set(currentTime, t, now)
    /\ pc' = Set(pc, t, "waitCompute")
    /\ UNCHANGED <<now, shared, slot, locks, clocks, op, name, duration, elapsed, nap,
                   wake, overtime, since, published>>

\* variant of WaitCompute: the target is recorded, not max(target, elapsed)
WaitCompute_RecordsTarget(t) ==
    LET e == USub(currentTime[t], timeMap[name[t]])
    IN  /\ pc[t] = "waitCompute"
        /\ elapsed' = Set(elapsed, t, e)
        /\ IF ULess(e, duration[t])
             THEN /\ nap' = Set(nap, t, (duration[t] - e) * NsecPerUsec)
                  /\ overtime' = Set(overtime, t, FALSE)
             ELSE /\ nap' = Set(nap, t, 0)
                  /\ overtime' = Set(overtime, t, TRUE)
        /\ durationMap' = MapPut(durationMap, name[t], duration[t])
        /\ pc' = Set(pc, t, "nanosleep")
        /\ UNCHANGED <<now, enabled, timeMap, slot, locks, clocks, op, name, duration,
                       currentTime, wake, since, published>>

WaitCompute(t) ==
    LET e == USub(currentTime[t], timeMap[name[t]])
    IN  /\ pc[t] = "waitCompute"
        /\ elapsed' = Set(elapsed, t, e)
        /\ IF ULess(e, duration[t])
             THEN /\ nap' = Set(nap, t, (duration[t] - e) * NsecPerUsec)
                  /\ overtime' = Set(overtime, t, FALSE)
             ELSE /\ nap' = Set(nap, t, 0)
                  /\ overtime' = Set(overtime, t, TRUE)
        /\ durationMap' = MapPut(durationMap, name[t], UMax(duration[t], e))
        /\ pc' = Set(pc, t, "nanosleep")
        /\ UNCHANGED <<now, enabled, timeMap, slot, locks, clocks, op, name, duration,
                       currentTime, wake, since, published>>

(* nanosleep(&nap, NULL): EINVAL without sleeping when tv_nsec > 999999999 *)
Nanosleep(t) ==
    /\ pc[t] = "nanosleep"
    /\ IF nap[t] = 0 \/ nap[t] > MaxNsec
         THEN /\ pc' = Set(pc, t, "done")
              /\ UNCHANGED wake
         ELSE /\ pc' = Set(pc, t, "sleeping")
              /\ wake' = Set(wake, t, now + (nap[t] + NsecPerUsec - 1) \div NsecPerUsec)
    /\ UNCHANGED <<now, shared, slot, locks, clocks, op, name, duration, currentTime,
                   elapsed, nap, overtime, since, published>>

WaitWake(t) ==
    /\ pc[t] = "sleeping"
    /\ now >= wake[t]
    /\ pc' = Set(pc, t, "done")
    /\ UNCHANGED <<now, shared, slot, locks, clocks, locals, op, name, duration,
                   published>>

(* void setDuration(const std::string& name, unsigned long long value) *)
SetDuration(t, n, v) ==
    /\ pc[t] = "idle"
    /\ durationMap' = MapPut(durationMap, n, v)
    /\ UNCHANGED <<now, enabled, timeMap, slot, locks, clocks, locals, pc, op, name,
                   duration, published>>

(* unsigned long long sinceLastSeen(const std::string& name) *)
SinceLastSeen(t, n) ==
    /\ pc[t] = "idle"
    /\ IF n \notin DOMAIN timeMap
         THEN /\ StartBegin(t, n, "sinceLastSeen")
              /\ since' = Set(since, t, 0)
         ELSE /\ StopBegin(t, n, "sinceLastSeen")
              /\ UNCHANGED <<currentTime, since>>
    /\ UNCHANGED <<now, shared, slot, locks, clocks, duration, elapsed, nap, wake,
                   overtime, published>>

\* variant of SlsGet: the duration stop recorded is not read back
SlsGet_ReturnsZero(t) ==
    /\ pc[t] = "slsGet"
    /\ since' = Set(since, t, 0)
    /\ pc' = Set(pc, t, "slsStart")
    /\ UNCHANGED <<now, shared, slot, locks, clocks, op, name, duration, currentTime,
                   elapsed, nap, wake, overtime, published>>

SlsGet(t) ==
    /\ pc[t] = "slsGet"
    /\ since' = Set(since, t, getDuration(name[t]))
    /\ pc' = Set(pc, t, "slsStart")
    /\ UNCHANGED <<now, shared, slot, locks, clocks, op, name, duration, currentTime,
                   elapsed, nap, wake, overtime, published>>

SlsStart(t) ==
    /\ pc[t] = "slsStart"
    /\ StartBegin(t, name[t], "sinceLastSeen")
    /\ UNCHANGED <<now, shared, slot, locks, clocks, duration, elapsed, nap, wake,
                   overtime, since, published>>

(* void setStatus(bool enabled) *)
SetStatus(t, b) ==
    /\ pc[t] = "idle"
    /\ enabled' = b
    /\ UNCHANGED <<now, timeMap, durationMap, slot, locks, clocks, locals, pc, op,
                   name, duration, published>>

----------------------------------------------------------------------------
(* Timer& operator<<(const std::string& name) *)
Open(t, n) ==
    /\ pc[t] = "idle"
    /\ StartBegin(t, n, "open")
    /\ UNCHANGED <<now, shared, slot, locks, clocks, duration, elapsed, nap, wake,
                   overtime, since, published>>

OpenZero(t) ==
    /\ pc[t] = "openZero"
    /\ currentDuration' = 0
    /\ pc' = Set(pc, t, "done")
    /\ UNCHANGED <<now, shared, isDurationSet, durationThreadId, locks, clocks, locals,
                   op, name, duration, published>>

(* Timer& operator>>(unsigned long long duration) *)
Publish(t, d) ==
    /\ pc[t] = "idle"
    /\ op' = Set(op, t, "publish")
    /\ duration' = Set(duration, t, d)
    /\ published' = Set(published, t, d)
    /\ pc' = Set(pc, t, "pubLock")
    /\ UNCHANGED <<now, shared, slot, locks, clocks, locals, name>>

\* variant of PubLock: the publish does not wait for the lock
PubLock_NoWait(t) ==
    /\ pc[t] = "pubLock"
    /\ timerMutex' = TRUE
    /\ mutexOwner' = t
    /\ pc' = Set(pc, t, "pubStore")
    /\ UNCHANGED <<now, shared, slot, clocks, locals, op, name, duration, published>>

PubLock(t) ==
    /\ pc[t] = "pubLock"
    /\ SpinlockIsFree(timerMutex)
    /\ timerMutex' = TRUE
    /\ mutexOwner' = t
    /\ pc' = Set(pc, t, "pubStore")
    /\ UNCHANGED <<now, shared, slot, clocks, locals, op, name, duration, published>>

PubStore(t) ==
    /\ pc[t] = "pubStore"
    /\ currentDuration' = duration[t]
    /\ pc' = Set(pc, t, "pubThread")
    /\ UNCHANGED <<now, shared, isDurationSet, durationThreadId, locks, clocks, locals,
                   op, name, duration, published>>

\* variant of PubThread: the publisher's identity is not recorded
PubThread_Skips(t) ==
    /\ pc[t] = "pubThread"
    /\ pc' = Set(pc, t, "pubFlag")
    /\ UNCHANGED <<now, shared, slot, locks, clocks, locals, op, name, duration,
                   published>>

PubThread(t) ==
    /\ pc[t] = "pubThread"
    /\ durationThreadId' = t
    /\ pc' = Set(pc, t, "pubFlag")
    /\ UNCHANGED <<now, shared, currentDuration, isDurationSet, locks, clocks, locals,
                   op, name, duration, published>>

\* variant of PubFlag: the publish releases the lock when it returns
PubFlag_Unlocks(t) ==
    /\ pc[t] = "pubFlag"
    /\ isDurationSet' = TRUE
    /\ timerMutex' = FALSE
    /\ mutexOwner' = NoThread
    /\ pc' = Set(pc, t, "done")
    /\ UNCHANGED <<now, shared, currentDuration, durationThreadId, clocks,
                   locals, op, name, duration, published>>

PubFlag(t) ==
    /\ pc[t] = "pubFlag"
    /\ isDurationSet' = TRUE
    /\ pc' = Set(pc, t, "done")
    /\ UNCHANGED <<now, shared, currentDuration, durationThreadId, locks, clocks,
                   locals, op, name, duration, published>>

\* variant of Consume: a disabled facility makes the consume return at once
Consume_Gated(t, n) ==
    /\ pc[t] = "idle"
    /\ op' = Set(op, t, "consume")
    /\ name' = Set(name, t, n)
    /\ duration' = Set(duration, t, 0)
    /\ pc' = Set(pc, t, IF ~enabled THEN "done"
                          ELSE IF isDurationSet THEN "conThread" ELSE "conBranch")
    /\ UNCHANGED <<now, shared, slot, locks, clocks, locals, published>>

(* bool operator>>(const std::string& name) *)
Consume(t, n) ==
    /\ pc[t] = "idle"
    /\ op' = Set(op, t, "consume")
    /\ name' = Set(name, t, n)
    /\ duration' = Set(duration, t, 0)
    /\ pc' = Set(pc, t, IF isDurationSet THEN "conThread" ELSE "conBranch")
    /\ UNCHANGED <<now, shared, slot, locks, clocks, locals, published>>

\* variant of ConThread: the consume does not compare the thread identity
ConThread_AnyThread(t) ==
    /\ pc[t] = "conThread"
    /\ pc' = Set(pc, t, "conClear")
    /\ UNCHANGED <<now, shared, slot, locks, clocks, locals, op, name, duration,
                   published>>

ConThread(t) ==
    /\ pc[t] = "conThread"
    /\ pc' = Set(pc, t, IF durationThreadId = t THEN "conClear" ELSE "conBranch")
    /\ UNCHANGED <<now, shared, slot, locks, clocks, locals, op, name, duration,
                   published>>

ConClear(t) ==
    /\ pc[t] = "conClear"
    /\ isDurationSet' = FALSE
    /\ pc' = Set(pc, t, "conRead")
    /\ UNCHANGED <<now, shared, currentDuration, durationThreadId, locks, clocks,
                   locals, op, name, duration, published>>

ConRead(t) ==
    /\ pc[t] = "conRead"
    /\ duration' = Set(duration, t, currentDuration)
    /\ pc' = Set(pc, t, "conZero")
    /\ UNCHANGED <<now, shared, slot, locks, clocks, locals, op, name, published>>

ConZero(t) ==
    /\ pc[t] = "conZero"
    /\ currentDuration' = 0
    /\ pc' = Set(pc, t, "conUnlock")
    /\ UNCHANGED <<now, shared, isDurationSet, durationThreadId, locks, clocks, locals,
                   op, name, duration, published>>

\* variant of ConUnlock: the consume leaves the lock held
ConUnlock_KeepsLock(t) ==
    /\ pc[t] = "conUnlock"
    /\ pc' = Set(pc, t, "conBranch")
    /\ UNCHANGED <<now, shared, slot, locks, clocks, locals, op, name, duration,
                   published>>

ConUnlock(t) ==
    /\ pc[t] = "conUnlock"
    /\ timerMutex' = FALSE
    /\ mutexOwner' = NoThread
    /\ pc' = Set(pc, t, "conBranch")
    /\ UNCHANGED <<now, shared, slot, clocks, locals, op, name, duration, published>>

\* variant of ConBranch: waitUntilDuration is called whatever was consumed
ConBranch_AlwaysWaits(t) ==
    /\ pc[t] = "conBranch"
    /\ WaitBegin(t, name[t], duration[t], "consume")
    /\ UNCHANGED <<now, shared, slot, locks, clocks, currentTime, elapsed, nap, wake,
                   since, published>>

ConBranch(t) ==
    /\ pc[t] = "conBranch"
    /\ IF duration[t] # 0
         THEN WaitBegin(t, name[t], duration[t], "consume")
         ELSE /\ StopBegin(t, name[t], "consume")
              /\ UNCHANGED <<duration, overtime>>
    /\ UNCHANGED <<now, shared, slot, locks, clocks, currentTime, elapsed, nap, wake,
                   since, published>>

----------------------------------------------------------------------------
\* variant of SetMasterClock: the length of the sequence is not tested
SetMasterClock_AnyLength(t, c) ==
    /\ pc[t] = "idle"
    /\ op' = Set(op, t, "setMasterClock")
    /\ clockArg' = Set(clockArg, t, c)
    /\ pc' = Set(pc, t, "clockLock")
    /\ UNCHANGED <<now, shared, slot, locks, clockMutex, clock, clockLocals, locals,
                   name, duration, published>>

(* void setMasterClock(const Values& clock) *)
SetMasterClock(t, c) ==
    /\ pc[t] = "idle"
    /\ op' = Set(op, t, "setMasterClock")
    /\ clockArg' = Set(clockArg, t, c)
    /\ pc' = Set(pc, t, IF Len(c) = 8 THEN "clockLock" ELSE "done")
    /\ UNCHANGED <<now, shared, slot, locks, clockMutex, clock, clockLocals, locals,
                   name, duration, published>>

SmcLock(t) ==
    /\ pc[t] = "clockLock"
    /\ SpinlockIsFree(clockMutex)
    /\ clockMutex' = TRUE
    /\ pc' = Set(pc, t, "clockAssign")
    /\ UNCHANGED <<now, shared, slot, locks, clock, clockArg, clockLocals, locals,
                   op, name, duration, published>>

SmcAssign(t) ==
    /\ pc[t] = "clockAssign"
    /\ clock' = clockArg[t]
    /\ pc' = Set(pc, t, "clockUnlock")
    /\ UNCHANGED <<now, shared, slot, locks, clockMutex, clockArg, clockLocals,
                   locals, op, name, duration, published>>

SmcUnlock(t) ==
    /\ pc[t] = "clockUnlock"
    /\ clockMutex' = FALSE
    /\ pc' = Set(pc, t, "done")
    /\ UNCHANGED <<now, shared, slot, locks, clock, clockArg, clockLocals, locals,
                   op, name, duration, published>>

----------------------------------------------------------------------------
(* Reading the master clock *)

\* _clock.size() read without _clockMutex: while a setMasterClock holds the
\* lock and has not assigned yet, the unsynchronised read yields the size
\* before or after that assignment.
SizesSeen ==
    {Len(clock)} \cup {Len(clockArg[w]) : w \in {x \in Threads : pc[x] = "clockAssign"}}

\* variant of Frames: the days are taken from the second field
Frames_LeadingField(c) ==
    c[7] + (c[6] + (c[5] + (c[4] + c[2] * 24) * 60) * 60) * FramesPerSecond

\* int64_t values beyond 32 bits are kept as hi * 1000000 + lo
Frames(c) == c[7] + (c[6] + (c[5] + (c[4] + c[3] * 24) * 60) * 60) * FramesPerSecond

\* (frames * 1000000) / 120, for frames >= 0
USeconds(f) ==
    [hi |-> f \div FramesPerSecond,
     lo |-> ((f % FramesPerSecond) * Million) \div FramesPerSecond]

\* std::chrono::duration_cast<T>(useconds).count(), u microseconds per unit
DurationCast(w, u) ==
    IF u = 1 THEN w
    ELSE LET q == w.hi * (Million \div u) + (w.lo \div u)
         IN [hi |-> q \div Million, lo |-> q % Million]

(* bool getMasterClock(Values& clock) const; the reference is bound to the *)
(* caller's variable, which holds v                                        *)
GetMasterClock(t, v) ==
    /\ pc[t] = "idle"
    /\ op' = Set(op, t, "getMasterClock")
    /\ clockOut' = Set(clockOut, t, v)
    /\ pc' = Set(pc, t, "gmcCheck")
    /\ UNCHANGED <<now, shared, slot, locks, clockMutex, clock, clockArg, clockRet,
                   timeOut, paused, unit, locals, name, duration, published>>

GmcCheck(t) ==
    /\ pc[t] = "gmcCheck"
    /\ \E size \in SizesSeen :
          IF size > 0
          THEN /\ pc' = Set(pc, t, "gmcLock")
               /\ UNCHANGED clockRet
          ELSE /\ clockRet' = Set(clockRet, t, FALSE)
               /\ pc' = Set(pc, t, "done")
    /\ UNCHANGED <<now, shared, slot, locks, clockMutex, clock, clockArg, clockOut,
                   timeOut, paused, unit, locals, op, name, duration, published>>

\* variant of GmcLock: the lock is taken without waiting for it to be free
GmcLock_NoWait(t) ==
    /\ pc[t] = "gmcLock"
    /\ clockMutex' = TRUE
    /\ pc' = Set(pc, t, "gmcCopy")
    /\ UNCHANGED <<now, shared, slot, locks, clock, clockArg, clockLocals, locals,
                   op, name, duration, published>>

GmcLock(t) ==
    /\ pc[t] = "gmcLock"
    /\ SpinlockIsFree(clockMutex)
    /\ clockMutex' = TRUE
    /\ pc' = Set(pc, t, "gmcCopy")
    /\ UNCHANGED <<now, shared, slot, locks, clock, clockArg, clockLocals, locals,
                   op, name, duration, published>>

GmcCopy(t) ==
    /\ pc[t] = "gmcCopy"
    /\ clockOut' = Set(clockOut, t, clock)
    /\ pc' = Set(pc, t, "gmcReturn")
    /\ UNCHANGED <<now, shared, slot, locks, clockMutex, clock, clockArg, clockRet,
                   timeOut, paused, unit, locals, op, name, duration, published>>

\* return true; the lock_guard releases the lock
GmcReturn(t) ==
    /\ pc[t] = "gmcReturn"
    /\ clockRet' = Set(clockRet, t, TRUE)
    /\ clockMutex' = FALSE
    /\ pc' = Set(pc, t, "done")
    /\ UNCHANGED <<now, shared, slot, locks, clock, clockArg, clockOut, timeOut,
                   paused, unit, locals, op, name, duration, published>>

(* template <typename T> bool getMasterClock(int64_t& time, bool& paused)  *)
(* const; the references are bound to variables holding tm and p           *)
GetMasterClockTime(t, u, tm, p) ==
    /\ pc[t] = "idle"
    /\ op' = Set(op, t, "getMasterClockTime")
    /\ unit' = Set(unit, t, u)
    /\ timeOut' = Set(timeOut, t, tm)
    /\ paused' = Set(paused, t, p)
    /\ pc' = Set(pc, t, "gmtCheck")
    /\ UNCHANGED <<now, shared, slot, locks, clockMutex, clock, clockArg, clockOut,
                   clockRet, locals, name, duration, published>>

\* variant of GmtCheck: the empty branch does not write paused
GmtCheck_KeepsPaused(t) ==
    /\ pc[t] = "gmtCheck"
    /\ \E size \in SizesSeen :
          IF size = 0
          THEN /\ clockRet' = Set(clockRet, t, FALSE)
               /\ pc' = Set(pc, t, "done")
          ELSE /\ pc' = Set(pc, t, "gmtLock")
               /\ UNCHANGED clockRet
    /\ UNCHANGED <<now, shared, slot, locks, clockMutex, clock, clockArg, clockOut,
                   timeOut, paused, unit, locals, op, name, duration, published>>

GmtCheck(t) ==
    /\ pc[t] = "gmtCheck"
    /\ \E size \in SizesSeen :
          IF size = 0
          THEN /\ paused' = Set(paused, t, TRUE)
               /\ clockRet' = Set(clockRet, t, FALSE)
               /\ pc' = Set(pc, t, "done")
          ELSE /\ pc' = Set(pc, t, "gmtLock")
               /\ UNCHANGED <<paused, clockRet>>
    /\ UNCHANGED <<now, shared, slot, locks, clockMutex, clock, clockArg, clockOut,
                   timeOut, unit, locals, op, name, duration, published>>

GmtLock(t) ==
    /\ pc[t] = "gmtLock"
    /\ SpinlockIsFree(clockMutex)
    /\ clockMutex' = TRUE
    /\ pc' = Set(pc, t, "gmtCopy")
    /\ UNCHANGED <<now, shared, slot, locks, clock, clockArg, clockLocals, locals,
                   op, name, duration, published>>

\* auto clock = _clock;
GmtCopy(t) ==
    /\ pc[t] = "gmtCopy"
    /\ clockOut' = Set(clockOut, t, clock)
    /\ pc' = Set(pc, t, "gmtUnlock")
    /\ UNCHANGED <<now, shared, slot, locks, clockMutex, clock, clockArg, clockRet,
                   timeOut, paused, unit, locals, op, name, duration, published>>

GmtUnlock(t) ==
    /\ pc[t] = "gmtUnlock"
    /\ clockMutex' = FALSE
    /\ pc' = Set(pc, t, "gmtDecode")
    /\ UNCHANGED <<now, shared, slot, locks, clock, clockArg, clockLocals, locals,
                   op, name, duration, published>>

GmtDecode(t) ==
    /\ pc[t] = "gmtDecode"
    /\ timeOut' = Set(timeOut, t, DurationCast(USeconds(Frames(clockOut[t])), unit[t]))
    /\ paused' = Set(paused, t, clockOut[t][8] # 0)
    /\ clockRet' = Set(clockRet, t, TRUE)
    /\ pc' = Set(pc, t, "done")
    /\ UNCHANGED <<now, shared, slot, locks, clockMutex, clock, clockArg, clockOut,
                   unit, locals, op, name, duration, published>>

----------------------------------------------------------------------------
(* the call returns to its caller; the frame's locals die *)
Return(t) ==
    /\ pc[t] = "done"
    /\ pc' = Set(pc, t, "idle")
    /\ published' = IF op[t] = "consume" THEN Set(published, t, -1) ELSE published
    /\ op' = Set(op, t, "none")
    /\ name' = Set(name, t, "")
    /\ duration' = Set(duration, t, 0)
    /\ currentTime' = Set(currentTime, t, 0)
    /\ elapsed' = Set(elapsed, t, 0)
    /\ nap' = Set(nap, t, 0)
    /\ wake' = Set(wake, t, 0)
    /\ overtime' = Set(overtime, t, FALSE)
    /\ since' = Set(since, t, 0)
    /\ clockArg' = Set(clockArg, t, << >>)
    /\ clockOut' = Set(clockOut, t, << >>)
    /\ clockRet' = Set(clockRet, t, FALSE)
    /\ timeOut' = Set(timeOut, t, [hi |-> 0, lo |-> 0])
    /\ paused' = Set(paused, t, FALSE)
    /\ unit' = Set(unit, t, 1)
    /\ UNCHANGED <<now, shared, slot, locks, clockMutex, clock>>

----------------------------------------------------------------------------
(* The calls a thread makes and the steps it takes, grouped by facility. *)

\* start, stop, waitUntilDuration, setDuration, sinceLastSeen on the names N
TimerCalls(t, N) ==
    \/ \E n \in N : Start(t, n)
    \/ \E n \in N : Stop(t, n)
    \/ \E n \in N, d \in Targets : WaitUntilDuration(t, n, d)
    \/ \E n \in N, v \in PeerDurations : SetDuration(t, n, v)
    \/ \E n \in N : SinceLastSeen(t, n)

\* the statements of start, stop and waitUntilDuration after their entry
MeasureSteps(t) ==
    \/ StartWrite(t)
    \/ StopSample(t)
    \/ StopRecord(t)
    \/ WaitSample(t)
    \/ WaitCompute(t)
    \/ Nanosleep(t)
    \/ WaitWake(t)

SlsSteps(t) ==
    \/ SlsGet(t)
    \/ SlsStart(t)

\* operator<<(name), operator>>(duration), operator>>(name) on the names N
HandoffCalls(t, N) ==
    \/ \E n \in N : Open(t, n)
    \/ \E d \in Targets : Publish(t, d)
    \/ \E n \in N : Consume(t, n)

HandoffSteps(t) ==
    \/ OpenZero(t)
    \/ PubLock(t)
    \/ PubStore(t)
    \/ PubThread(t)
    \/ PubFlag(t)
    \/ ConThread(t)
    \/ ConClear(t)
    \/ ConRead(t)
    \/ ConZero(t)
    \/ ConUnlock(t)
    \/ ConBranch(t)

ClockSteps(t) ==
    \/ \E c \in ClockInputs : SetMasterClock(t, c)
    \/ SmcLock(t)
    \/ SmcAssign(t)
    \/ SmcUnlock(t)
    \/ \E v \in CallerValues : GetMasterClock(t, v)
    \/ GmcCheck(t)
    \/ GmcLock(t)
    \/ GmcCopy(t)
    \/ GmcReturn(t)
    \/ \E u \in Units, tm \in CallerTimes, p \in BOOLEAN : GetMasterClockTime(t, u, tm, p)
    \/ GmtCheck(t)
    \/ GmtLock(t)
    \/ GmtCopy(t)
    \/ GmtUnlock(t)
    \/ GmtDecode(t)

(* Measurement and pacing: every thread calls the measurement methods on   *)
(* one name and toggles the enable flag.                                    *)
TimerNext ==
    \/ Tick
    \/ \E t \in Threads : TimerCalls(t, {"frame"})
    \/ \E t \in Threads : MeasureSteps(t)
    \/ \E t \in Threads : SlsSteps(t)
    \/ \E t \in Threads, b \in BOOLEAN : SetStatus(t, b)
    \/ \E t \in Threads : Return(t)

SpecTimer == Init /\ [][TimerNext]_vars

(* The hand-off: every thread opens, publishes and consumes on one name and *)
(* toggles the enable flag.                                                  *)
HandoffNext ==
    \/ Tick
    \/ \E t \in Threads : HandoffCalls(t, {"frame"})
    \/ \E t \in Threads : HandoffSteps(t)
    \/ \E t \in Threads : MeasureSteps(t)
    \/ \E t \in Threads, b \in BOOLEAN : SetStatus(t, b)
    \/ \E t \in Threads : Return(t)

SpecHandoff == Init /\ [][HandoffNext]_vars

(* One thread making any sequence of measurement and hand-off calls on two  *)
(* names.                                                                    *)
SeqNext ==
    \/ Tick
    \/ TimerCalls(1, Names)
    \/ HandoffCalls(1, Names)
    \/ MeasureSteps(1)
    \/ SlsSteps(1)
    \/ HandoffSteps(1)
    \/ \E b \in BOOLEAN : SetStatus(1, b)
    \/ Return(1)

SpecSeq == Init /\ [][SeqNext]_vars

(* The master clock: every thread sets it and reads it. *)
ClockNext ==
    \/ \E t \in Threads : ClockSteps(t)
    \/ \E t \in Threads : Return(t)

SpecClock == Init /\ [][ClockNext]_vars

(* The hand-off used as the call sites use it, Timer::get() << name and    *)
(* later Timer::get() >> duration >> name: a thread that has published     *)
(* calls consume next.                                                      *)
ProtocolCalls(t, N) ==
    \/ published[t] = -1 /\ \E n \in N : Open(t, n)
    \/ published[t] = -1 /\ \E d \in {0, 2} : Publish(t, d)
    \/ \E n \in N : Consume(t, n)

ProtocolNext ==
    \/ Tick
    \/ \E t \in Threads : ProtocolCalls(t, {"frame"})
    \/ \E t \in Threads : HandoffSteps(t)
    \/ \E t \in Threads : MeasureSteps(t)
    \/ \E t \in Threads : Return(t)

SpecProtocol == Init /\ [][ProtocolNext]_vars

\* any step of thread t in the hand-off protocol
ProtocolStep(t) ==
    \/ ProtocolCalls(t, {"frame"})
    \/ HandoffSteps(t)
    \/ MeasureSteps(t)
    \/ Return(t)

(* Fair scheduling: the clock advances and a thread that can take a step is *)
(* eventually scheduled.  A thread spinning on the lock is scheduled too,   *)
(* but acquires the lock only if it is free at that moment: the lock gives  *)
(* no waiter priority, hence weak and not strong fairness.                  *)
FairProtocol ==
    /\ SpecProtocol
    /\ WF_vars(Tick)
    /\ \A t \in Threads : WF_vars(ProtocolStep(t))

(* Every thread may make every call. *)
Next ==
    \/ TimerNext
    \/ HandoffNext
    \/ ClockNext

Spec == Init /\ [][Next]_vars

----------------------------------------------------------------------------
(* Properties of the hand-off *)

\* thread a has published and its value has not been consumed
Pending(a) == isDurationSet /\ durationThreadId = a

\* the statements of operator>>(name) that follow the release of the lock
AfterUnlock == {"conBranch", "waitSample", "waitCompute", "nanosleep", "sleeping",
                "stopSample", "stopRecord", "done"}

\* thread t has acquired the lock in a publish and not yet released it in a consume
HasSlot(t) ==
    /\ published[t] >= 0
    /\ pc[t] # "pubLock"
    /\ ~(op[t] = "consume" /\ pc[t] \in AfterUnlock)

\* C1: a thread that published a positive duration d and then calls consume
\* reaches the branch of line 232 with duration = d, so that it runs
\* waitUntilDuration(name, d), whatever the other threads did in between.
C1_ConsumeRunsPublished ==
    \A t \in Threads :
        (op[t] = "consume" /\ pc[t] = "conBranch" /\ published[t] > 0)
            => duration[t] = published[t]

\* C2: while thread a has published and not consumed, a consume call of
\* another thread b, which has no publish of its own pending, changes neither
\* the slot nor the lock, takes only the stop path and returns false.
C2_CrossThreadNeverConsumes ==
    /\ [](\A a, b \in Threads :
            (a # b /\ Pending(a) /\ op[b] = "consume" /\ published[b] = -1)
                => /\ pc[b] \in {"conThread", "conBranch", "stopSample", "stopRecord",
                                 "done"}
                   /\ duration[b] = 0
                   /\ overtime[b] = FALSE)
    /\ [][\A a, b \in Threads :
            (a # b /\ Pending(a) /\ op[b] = "consume" /\ published[b] = -1
                /\ pc'[b] # pc[b])
                => /\ slot' = slot
                   /\ locks' = locks
                   /\ Pending(a)']_vars

C2_Witness ==
    \E a, b \in Threads :
        /\ a # b
        /\ Pending(a)
        /\ op[b] = "consume"
        /\ published[b] = -1
        /\ pc[b] = "done"
        /\ "frame" \in DOMAIN durationMap

\* C3: at most one thread is between its publish and its consume, the lock
\* is held while one is, and a publish call of any other thread stays at the
\* lock acquisition, writing nothing, until the holder has consumed.
C3_HandoffMutualExclusion ==
    /\ [](\A a, b \in Threads :
            (a # b /\ HasSlot(a))
                => /\ ~HasSlot(b)
                   /\ timerMutex
                   /\ (op[b] = "publish" => pc[b] = "pubLock"))
    /\ [][\A a, b \in Threads :
            (a # b /\ HasSlot(a) /\ op[b] = "publish")
                => /\ pc'[b] = "pubLock"
                   /\ (slot' # slot => pc'[a] # pc[a])]_vars

C3_Witness ==
    \E a, b \in Threads :
        /\ a # b
        /\ HasSlot(a)
        /\ Pending(a)
        /\ pc[a] = "idle"
        /\ pc[b] = "pubLock"

\* C4: the lock is released only by the consume of the thread that published,
\* it is acquired only when free, and while it is held no publish call can get
\* past the acquisition, a second publish of the holder included.
C4_LockHeldUntilOwnConsume ==
    /\ [](\A t \in Threads : (timerMutex /\ pc[t] = "pubLock") => ~ENABLED PubLock(t))
    /\ [][/\ (timerMutex /\ ~timerMutex')
                => \E t \in Threads :
                      /\ mutexOwner = t
                      /\ durationThreadId = t
                      /\ op[t] = "consume"
                      /\ pc[t] = "conUnlock"
                      /\ pc'[t] = "conBranch"
          /\ \A t \in Threads :
                (pc[t] = "pubLock" /\ pc'[t] # "pubLock")
                    => (~timerMutex /\ timerMutex' /\ mutexOwner' = t)]_vars

C4_Witness ==
    \E t \in Threads :
        /\ pc[t] = "pubLock"
        /\ mutexOwner = t
        /\ timerMutex

\* no thread is between a publish and its consume
NoHolder == \A t \in Threads : ~HasSlot(t)

\* C5 as stated: under fair scheduling every publish call acquires the lock
\* and returns, and with no thread between publish and consume the lock is
\* free and the flag clear.
C5_EveryPublishReturns ==
    /\ \A t \in Threads :
          (pc[t] = "pubLock") ~> (op[t] = "publish" /\ pc[t] = "done")
    /\ [](NoHolder => (~timerMutex /\ ~isDurationSet))

\* C5 amended: a held lock is always released again, and while a publish call
\* waits some publish call acquires the lock; with no thread between publish
\* and consume the lock is free and the flag clear.
C5_LockAlwaysReleased ==
    /\ timerMutex ~> ~timerMutex
    /\ (\E t \in Threads : pc[t] = "pubLock") ~> (\E t \in Threads : pc[t] = "pubStore")
    /\ [](NoHolder => (~timerMutex /\ ~isDurationSet))

C5_Witness ==
    \E a, b \in Threads :
        /\ a # b
        /\ pc[b] = "pubLock"
        /\ NoHolder
        /\ op[a] = "consume"
        /\ pc[a] = "sleeping"

----------------------------------------------------------------------------
(* Properties of measurement and pacing *)

\* the statements of waitUntilDuration after the tests of lines 115-119
InsideWait == {"waitSample", "waitCompute", "nanosleep", "sleeping"}

\* C6: waitUntilDuration on a started name with the facility enabled does
\* not return before the clock has reached startTime + target, and with
\* elapsed < target it sleeps target - elapsed microseconds, handed to
\* nanosleep as nanoseconds.
C6_WaitReachesTarget ==
    [][\A t \in Threads :
        /\ (pc[t] \in {"nanosleep", "sleeping"} /\ pc'[t] = "done")
              => now >= (currentTime[t] - elapsed[t]) + duration[t]
        /\ (pc[t] = "nanosleep" /\ pc'[t] # "nanosleep" /\ ULess(elapsed[t], duration[t]))
              => /\ nap[t] = (duration[t] - elapsed[t]) * NsecPerUsec
                 /\ pc'[t] = "sleeping"
                 /\ wake'[t] = now + (duration[t] - elapsed[t])]_vars

\* C7: past the tests of lines 115-119, waitUntilDuration sets overtime
\* exactly when elapsed >= target, asks for no sleep then, records
\* max(target, elapsed), never less than target, and returns overtime.
C7_PacingResult ==
    [][\A t \in Threads :
        /\ (pc[t] = "waitCompute" /\ pc'[t] # "waitCompute")
              => LET e == USub(currentTime[t], timeMap[name[t]])
                 IN  /\ elapsed'[t] = e
                     /\ overtime'[t] = ~ULess(e, duration[t])
                     /\ (overtime'[t] => nap'[t] = 0)
                     /\ name[t] \in DOMAIN durationMap'
                     /\ durationMap'[name[t]] = (IF ULess(duration[t], e) THEN e
                                                 ELSE duration[t])
                     /\ ~ULess(durationMap'[name[t]], duration[t])
        /\ (pc[t] = "nanosleep" /\ overtime[t] /\ pc'[t] # "nanosleep")
              => pc'[t] = "done"
        /\ (pc[t] \in {"nanosleep", "sleeping"} /\ pc'[t] # pc[t])
              => overtime'[t] = overtime[t]]_vars

C7_Witness ==
    \E t \in Threads :
        /\ op[t] = "waitUntilDuration"
        /\ pc[t] = "done"
        /\ overtime[t]
        /\ duration[t] = 2
        /\ elapsed[t] = 2
        /\ getDuration(name[t]) = 2

\* C8 as stated: a name with no recorded start has getDuration = 0, and no
\* thread is past the tests of waitUntilDuration on it.
C8_NeverStartedZero ==
    \A n \in Names :
        n \notin DOMAIN timeMap
            => /\ getDuration(n) = 0
               /\ \A t \in Threads : name[t] = n => pc[t] \notin InsideWait

\* C8 amended: for a name with no recorded start, the last duration is 0
\* until setDuration is called on it and changes only by setDuration, and
\* waitUntilDuration on it returns false at the tests of lines 115-119,
\* without sleeping.
C8_NeverStartedUnlessSet ==
    /\ \A n \in Names : getDuration(n) = 0
    /\ [](\A n \in Names :
            n \notin DOMAIN timeMap
                => \A t \in Threads :
                      name[t] = n
                          => /\ pc[t] \notin InsideWait
                             /\ overtime[t] = FALSE
                             /\ nap[t] = 0
                             /\ wake[t] = 0)
    /\ [][\A n \in Names :
            (n \notin DOMAIN timeMap /\ getDuration(n)' # getDuration(n))
                => \E t \in Threads, v \in PeerDurations : SetDuration(t, n, v)]_vars

C8_Witness ==
    \E t \in Threads :
        /\ op[t] = "consume"
        /\ published[t] = 2
        /\ duration[t] = 2
        /\ pc[t] = "done"
        /\ name[t] = "sync"
        /\ "sync" \notin DOMAIN timeMap
        /\ "frame" \in DOMAIN timeMap
        /\ getDuration("sync") = 7
        /\ enabled

\* C9: a start, stop or waitUntilDuration call made while the facility is
\* disabled returns at once, false for waitUntilDuration, leaving the start
\* timestamps and the last durations as they are; made while it is enabled,
\* the call goes on to its body.
C9_DisabledIsNoOp ==
    [][\A t \in Threads :
        (pc[t] = "idle" /\ op'[t] \in {"start", "stop", "waitUntilDuration"})
            => IF ~enabled
                 THEN /\ pc'[t] = "done"
                      /\ overtime'[t] = FALSE
                      /\ timeMap' = timeMap
                      /\ durationMap' = durationMap
                      /\ nap'[t] = 0
                 ELSE \/ op'[t] = "start" /\ pc'[t] = "startWrite"
                      \/ /\ op'[t] = "stop"
                         /\ pc'[t] = (IF name'[t] \in DOMAIN timeMap THEN "stopSample"
                                      ELSE "done")
                      \/ /\ op'[t] = "waitUntilDuration"
                         /\ pc'[t] = (IF name'[t] \in DOMAIN timeMap THEN "waitSample"
                                      ELSE "done")]_vars

C9_Witness ==
    \E t \in Threads :
        /\ ~enabled
        /\ op[t] = "waitUntilDuration"
        /\ pc[t] = "done"
        /\ duration[t] = 2
        /\ name[t] \in DOMAIN timeMap
        /\ name[t] \notin DOMAIN durationMap

----------------------------------------------------------------------------
(* Properties of the master clock *)

\* C10: the stored clock has length 0 or 8; a setMasterClock with a sequence
\* of another length returns without a step that changes the clock, and the
\* clock changes only by the assignment of an 8-field argument, to exactly
\* that argument.
C10_ClockLength ==
    /\ [](/\ Len(clock) \in {0, 8}
          /\ \A t \in Threads :
                (op[t] = "setMasterClock" /\ Len(clockArg[t]) # 8) => pc[t] = "done")
    /\ [][/\ clock' # clock
              => \E t \in Threads :
                    /\ pc[t] = "clockAssign"
                    /\ Len(clockArg[t]) = 8
                    /\ clock' = clockArg[t]
          /\ \A t \in Threads :
                (pc[t] = "clockAssign" /\ pc'[t] # "clockAssign")
                    => clock' = clockArg[t]]_vars

C10_Witness ==
    \E t \in Threads :
        /\ op[t] = "setMasterClock"
        /\ pc[t] = "done"
        /\ Len(clockArg[t]) = 7
        /\ clock = <<5, 5, 0, 0, 0, 1, 0, 1>>

\* C11: a getMasterClock(values) that returns false has changed nothing in
\* its output, and it returns false whenever the stored clock is still empty
\* when it returns; with a stored clock the emptiness check never takes the
\* false branch; the output of a call that returned true is one 8-field
\* sequence passed to setMasterClock, copied whole from the stored clock
\* while no writer is between taking and releasing the clock lock.
C11_ReadWholeClock ==
    /\ [](\A t \in Threads :
            (op[t] = "getMasterClock" /\ pc[t] = "done")
                => /\ Len(clock) = 0 => ~clockRet[t]
                   /\ ~clockRet[t] => clockOut[t] \in CallerValues
                   /\ clockRet[t]
                        => /\ Len(clockOut[t]) = 8
                           /\ clockOut[t] \in ClockInputs)
    /\ [][\A t \in Threads :
            /\ (pc[t] = "gmcCheck" /\ pc'[t] = "done")
                  => (clockOut'[t] = clockOut[t] /\ ~clockRet'[t])
            /\ (pc[t] = "gmcCheck" /\ pc'[t] # "gmcCheck" /\ Len(clock) > 0)
                  => pc'[t] = "gmcLock"
            /\ (pc[t] = "gmcCopy" /\ pc'[t] # "gmcCopy")
                  => /\ clockOut'[t] = clock
                     /\ Len(clock) = 8
                     /\ \A w \in Threads \ {t} :
                           pc[w] \notin {"clockAssign", "clockUnlock"}
            /\ (pc[t] \in {"gmcLock", "gmcCopy", "gmcReturn"} /\ pc'[t] = "done")
                  => (clockRet'[t] /\ clockOut'[t] = clockOut[t])]_vars

\* a reader returned one whole clock that a writer has replaced since, while
\* the other thread reads again and waits for the writer's lock
C11_Witness ==
    \E t \in Threads :
        /\ op[t] = "getMasterClock"
        /\ pc[t] = "done"
        /\ clockRet[t]
        /\ clockOut[t] = <<5, 5, 0, 0, 0, 1, 0, 1>>
        /\ clock = <<7, 9, 1, 2, 3, 4, 60, 0>>

\* C12: with a stored clock getMasterClock<T> returns true; its time is
\* floor(f * 1000000 / 120) microseconds for f = c[6] + 120*(c[5] + 60*(c[4]
\* + 60*(c[3] + 24*c[2]))) (fields counted from 0), truncated to the unit T;
\* paused = (c[7] # 0); the two leading fields are not used.  The clock
\* [0,0,1,2,3,4,60,0] decodes to 93784500000 us, 93784500 ms, 93784 s.
C12_Decoding ==
    /\ [](\A t \in Threads :
            (op[t] = "getMasterClockTime" /\ pc[t] = "done" /\ clockRet[t])
                => LET c == clockOut[t]
                       f == c[7] + 120 * (c[6] + 60 * (c[5] + 60 * (c[4] + 24 * c[3])))
                       sec == f \div 120
                       us == ((f - 120 * sec) * 1000000) \div 120
                       tm == timeOut[t]
                   IN /\ Len(c) = 8
                      /\ 120 * sec <= f /\ f < 120 * (sec + 1)
                      /\ 0 <= us /\ us < 1000000
                      /\ unit[t] = 1 => (tm.hi = sec /\ tm.lo = us)
                      /\ unit[t] = 1000
                            => tm.hi * 1000000 + tm.lo = sec * 1000 + us \div 1000
                      /\ unit[t] = 1000000 => tm.hi * 1000000 + tm.lo = sec
                      /\ paused[t] = (c[8] # 0)
                      /\ (c[3] = 1 /\ c[4] = 2 /\ c[5] = 3 /\ c[6] = 4 /\ c[7] = 60
                            /\ c[8] = 0)
                            => /\ ~paused[t]
                               /\ unit[t] = 1 => tm = [hi |-> 93784, lo |-> 500000]
                               /\ unit[t] = 1000 => tm = [hi |-> 93, lo |-> 784500]
                               /\ unit[t] = 1000000 => tm = [hi |-> 0, lo |-> 93784])
    /\ [][\A t \in Threads :
            (pc[t] = "gmtCheck" /\ pc'[t] # "gmtCheck" /\ Len(clock) > 0)
                => pc'[t] = "gmtLock"]_vars

\* the clock with leading fields 7 and 9 was decoded to microseconds
C12_Witness ==
    \E t \in Threads :
        /\ op[t] = "getMasterClockTime"
        /\ pc[t] = "done"
        /\ clockRet[t]
        /\ clockOut[t] = <<7, 9, 1, 2, 3, 4, 60, 0>>
        /\ unit[t] = 1
        /\ timeOut[t] = [hi |-> 93784, lo |-> 500000]
        /\ ~paused[t]

\* C13: a getMasterClock<T> that returns while no clock is stored returns
\* false with paused = true, and the step taking the empty branch leaves the
\* time output as the caller passed it.
C13_NoClock ==
    /\ [](\A t \in Threads :
            (op[t] = "getMasterClockTime" /\ pc[t] = "done" /\ Len(clock) = 0)
                => /\ ~clockRet[t]
                   /\ paused[t]
                   /\ timeOut[t] \in CallerTimes)
    /\ [][\A t \in Threads :
            (pc[t] = "gmtCheck" /\ pc'[t] = "done")
                => /\ timeOut'[t] = timeOut[t]
                   /\ paused'[t]
                   /\ ~clockRet'[t]]_vars

\* the caller passed paused = false and a time of 7; no clock is stored
C13_Witness ==
    \E t \in Threads :
        /\ op[t] = "getMasterClockTime"
        /\ pc[t] = "done"
        /\ Len(clock) = 0
        /\ ~clockRet[t]
        /\ paused[t]
        /\ timeOut[t] = [hi |-> 0, lo |-> 7]
        /\ \A w \in Threads : pc[w] # "idle"

----------------------------------------------------------------------------
(* Properties of sinceLastSeen and stop *)

\* the steps of a sinceLastSeen call as the claim describes them: a first
\* call samples the clock and returns 0; a later call goes through stop,
\* returns the sampled time minus the start timestamp, and samples again;
\* the start timestamp is written with the last sample
SlsElapsedAndRearm(t) ==
    /\ (pc[t] = "idle" /\ op'[t] = "sinceLastSeen" /\ name'[t] \notin DOMAIN timeMap)
          => (pc'[t] = "startWrite" /\ since'[t] = 0 /\ currentTime'[t] = now)
    /\ (pc[t] = "idle" /\ op'[t] = "sinceLastSeen" /\ name'[t] \in DOMAIN timeMap)
          => pc'[t] = "stopSample"
    /\ (op[t] = "sinceLastSeen" /\ pc[t] = "slsGet" /\ pc'[t] # "slsGet")
          => /\ since'[t] = USub(currentTime[t], timeMap[name[t]])
             /\ since'[t] = durationMap[name[t]]
    /\ (op[t] = "sinceLastSeen" /\ pc[t] = "slsStart" /\ pc'[t] # "slsStart")
          => (pc'[t] = "startWrite" /\ currentTime'[t] = now)
    /\ (op[t] = "sinceLastSeen" /\ pc[t] = "startWrite" /\ pc'[t] # "startWrite")
          => /\ timeMap' = MapPut(timeMap, name[t], currentTime[t])
             /\ since'[t] = since[t]
             /\ pc'[t] = "done"

\* C14 as stated: in every state, disabled or not, a first sinceLastSeen
\* records a start timestamp and returns 0, a later one returns the time
\* elapsed since the start timestamp and re-arms it.
C14_AsStated ==
    /\ [](\A t \in Threads :
            (op[t] = "sinceLastSeen" /\ pc[t] = "done")
                => /\ name[t] \in DOMAIN timeMap
                   /\ timeMap[name[t]] = currentTime[t])
    /\ [][\A t \in Threads : SlsElapsedAndRearm(t)]_vars

\* C14: while the facility is enabled, and whatever setDuration stored before
\* the call, a first sinceLastSeen records a start timestamp and returns 0, a
\* later one returns the time elapsed since the start timestamp (the value
\* stop records) and re-arms the timestamp; while it is disabled the call
\* writes neither map, a first call returns 0 and a later one returns the
\* last duration of the name.
C14_SinceLastSeen ==
    /\ [](\A t \in Threads :
            (op[t] = "sinceLastSeen" /\ pc[t] = "done")
                => IF enabled
                     THEN /\ name[t] \in DOMAIN timeMap
                          /\ timeMap[name[t]] = currentTime[t]
                     ELSE since[t] = IF name[t] \in DOMAIN timeMap
                                       THEN getDuration(name[t])
                                       ELSE 0)
    /\ [][\A t \in Threads :
            /\ enabled => SlsElapsedAndRearm(t)
            /\ (~enabled /\ (op[t] = "sinceLastSeen" \/ op'[t] = "sinceLastSeen"))
                  => (timeMap' = timeMap /\ durationMap' = durationMap)]_vars

\* a later call on a second name returned the 2 us that stop recorded and
\* re-armed the start timestamp
C14_Witness ==
    /\ enabled
    /\ op[1] = "sinceLastSeen"
    /\ pc[1] = "done"
    /\ since[1] = 2
    /\ name[1] = "sync"
    /\ timeMap["sync"] = 2
    /\ durationMap = [n \in {"sync"} |-> 2]

\* C15: a stop(name) called with the facility enabled and a start timestamp
\* for name samples the clock and sets the duration of name to the sample
\* minus the start timestamp (as unsigned 64-bit values), whatever the entry
\* held, and writes nothing else; called without a start timestamp it
\* returns at once and changes neither map.
C15_Stop ==
    [][\A t \in Threads :
        /\ (pc[t] = "idle" /\ op'[t] = "stop" /\ enabled)
              => /\ timeMap' = timeMap /\ durationMap' = durationMap
                 /\ pc'[t] = IF name'[t] \in DOMAIN timeMap
                               THEN "stopSample" ELSE "done"
        /\ (op[t] = "stop" /\ pc[t] = "stopSample" /\ pc'[t] # "stopSample")
              => /\ currentTime'[t] = now
                 /\ timeMap' = timeMap /\ durationMap' = durationMap
                 /\ pc'[t] = "stopRecord"
        /\ (op[t] = "stop" /\ pc[t] = "stopRecord" /\ pc'[t] # "stopRecord")
              => /\ name[t] \in DOMAIN timeMap
                 /\ DOMAIN durationMap' = DOMAIN durationMap \cup {name[t]}
                 /\ durationMap'[name[t]] = USub(currentTime[t], timeMap[name[t]])
                 /\ \A n \in DOMAIN durationMap \ {name[t]} :
                       durationMap'[n] = durationMap[n]
                 /\ timeMap' = timeMap
                 /\ pc'[t] = "done"]_vars

\* stop recorded the measured 2 us and left the start timestamp 0 in place
C15_Witness ==
    \E t \in Threads :
        /\ op[t] = "stop"
        /\ pc[t] = "done"
        /\ currentTime[t] = 2
        /\ timeMap = [n \in {"frame"} |-> 0]
        /\ durationMap = [n \in {"frame"} |-> 2]

----------------------------------------------------------------------------
(* Properties of the hand-off operators *)

\* C16: when operator<<(name) returns, the hand-off slot is not marked set,
\* and the call has not changed a value that another thread has published
\* and not yet consumed.
C16_OpenClearsFlag ==
    [][\A t \in Threads :
        /\ (op[t] = "open" /\ pc[t] # "done" /\ pc'[t] = "done") => ~isDurationSet'
        /\ (op[t] = "open" /\ pc'[t] # pc[t])
              => \A a \in Threads \ {t} :
                    Pending(a) => currentDuration' = currentDuration]_vars

\* C17: a consume is inside waitUntilDuration only with the positive value
\* it read from the slot, which is the one it published; a consume that
\* found the slot not set, set by another thread or holding 0 branches with
\* duration 0 and then does what stop(name) does, returning false; a consume
\* of its own slot clears the flag and releases the lock whatever the value.
C17_ConsumeFallback ==
    /\ [](\A t \in Threads :
            op[t] = "consume"
                => /\ pc[t] \in InsideWait
                        => (duration[t] > 0 /\ duration[t] = published[t])
                   /\ pc[t] \in {"stopSample", "stopRecord"} => duration[t] = 0
                   /\ (pc[t] = "done" /\ duration[t] = 0) => ~overtime[t])
    /\ [][\A t \in Threads :
            /\ (pc[t] = "idle" /\ op'[t] = "consume")
                  => /\ duration'[t] = 0
                     /\ pc'[t] = IF isDurationSet THEN "conThread" ELSE "conBranch"
            /\ (pc[t] = "conThread" /\ pc'[t] # "conThread")
                  => /\ duration'[t] = 0
                     /\ pc'[t] = IF durationThreadId = t THEN "conClear" ELSE "conBranch"
            /\ (pc[t] = "conClear" /\ pc'[t] # "conClear")
                  => (~isDurationSet' /\ pc'[t] = "conRead")
            /\ (pc[t] = "conRead" /\ pc'[t] # "conRead")
                  => (duration'[t] = currentDuration /\ pc'[t] = "conZero")
            /\ (pc[t] = "conZero" /\ pc'[t] # "conZero") => pc'[t] = "conUnlock"
            /\ (pc[t] = "conUnlock" /\ pc'[t] # "conUnlock")
                  => (~timerMutex' /\ pc'[t] = "conBranch")
            /\ (pc[t] = "conBranch" /\ pc'[t] # "conBranch")
                  => IF duration[t] > 0
                       THEN pc'[t] \in {"waitSample", "done"}
                       ELSE /\ pc'[t] = IF enabled /\ name[t] \in DOMAIN timeMap
                                          THEN "stopSample" ELSE "done"
                            /\ ~overtime'[t]
                            /\ UNCHANGED <<timeMap, durationMap, now>>
            /\ (op[t] = "consume" /\ pc[t] = "stopSample" /\ pc'[t] # "stopSample")
                  => (currentTime'[t] = now /\ pc'[t] = "stopRecord")
            /\ (op[t] = "consume" /\ pc[t] = "stopRecord" /\ pc'[t] # "stopRecord")
                  => /\ durationMap' = MapPut(durationMap, name[t],
                                              USub(currentTime[t], timeMap[name[t]]))
                     /\ ~overtime'[t]
                     /\ pc'[t] = "done"]_vars

\* a thread consumed the 0 it had published: it went through stop, which
\* recorded 1 us, and the flag is cleared and the lock free
C17_Witness ==
    \E t \in Threads :
        /\ op[t] = "consume"
        /\ pc[t] = "done"
        /\ published[t] = 0
        /\ duration[t] = 0
        /\ ~overtime[t]
        /\ ~isDurationSet
        /\ ~timerMutex
        /\ durationMap = [n \in {"frame"} |-> 1]

\* C18: whenever the slot flag is set the hand-off lock is held and the
\* recorded publisher is the thread that acquired the lock; the lock is
\* released only by a step of the thread that acquired it, while it is held.
C18_SlotInvariant ==
    /\ [](isDurationSet
            => /\ timerMutex
               /\ mutexOwner # NoThread
               /\ durationThreadId = mutexOwner)
    /\ [][/\ (timerMutex /\ ~timerMutex')
                => \E t \in Threads :
                      /\ pc[t] = "conUnlock"
                      /\ pc'[t] # "conUnlock"
                      /\ mutexOwner = t
          /\ \A t \in Threads :
                (pc[t] = "conUnlock" /\ pc'[t] # "conUnlock")
                    => (timerMutex /\ mutexOwner = t /\ ~timerMutex')]_vars

\* thread 2 holds the lock with its value published and begins its consume
\* while thread 1 waits for the lock to publish
C18_Witness ==
    /\ isDurationSet
    /\ timerMutex
    /\ durationThreadId = 2
    /\ mutexOwner = 2
    /\ published[2] = 2
    /\ pc[1] = "pubLock"
    /\ pc[2] = "conThread"

\* C19: publish and consume take the same steps whether the facility is
\* enabled or not; a consume that branches while it is disabled returns
\* false at once, without sleeping and without writing a duration; a thread
\* that had published leaves its consume with the flag not set for it and
\* the lock not held by it.
C19_DisabledConsume ==
    /\ [](\A t \in Threads :
            (op[t] = "consume" /\ pc[t] = "done" /\ published[t] # -1)
                => /\ ~Pending(t)
                   /\ mutexOwner # t)
    /\ [][\A t \in Threads :
            /\ (pc[t] = "idle" /\ op'[t] = "publish") => pc'[t] = "pubLock"
            /\ (pc[t] = "idle" /\ op'[t] = "consume")
                  => pc'[t] \in {"conThread", "conBranch"}
            /\ (pc[t] = "conBranch" /\ pc'[t] # "conBranch" /\ ~enabled)
                  => /\ pc'[t] = "done"
                     /\ ~overtime'[t]
                     /\ UNCHANGED <<timeMap, durationMap, now>>]_vars

\* a thread published 2 us for a started name, the facility was disabled,
\* and its consume returned false with no duration recorded and the lock free
C19_Witness ==
    \E t \in Threads :
        /\ ~enabled
        /\ op[t] = "consume"
        /\ pc[t] = "done"
        /\ published[t] = 2
        /\ duration[t] = 2
        /\ ~overtime[t]
        /\ name[t] \in DOMAIN timeMap
        /\ durationMap = << >>
        /\ ~isDurationSet
        /\ ~timerMutex

----------------------------------------------------------------------------
(* Properties of the measurement under concurrent calls on one name *)

\* C20: when stop records a duration or waitUntilDuration computes elapsed,
\* the start timestamp it reads is not later than the time it sampled, the
\* difference has not wrapped around (its signed representative is not
\* negative) and it is at most the time since the clock's origin, before
\* which no start happened.
C20_NoWrap ==
    [][\A t \in Threads :
        /\ (pc[t] = "stopRecord" /\ pc'[t] # "stopRecord")
              => /\ timeMap[name[t]] <= currentTime[t]
                 /\ durationMap'[name[t]] >= 0
                 /\ durationMap'[name[t]] <= now
        /\ (pc[t] = "waitCompute" /\ pc'[t] # "waitCompute")
              => /\ timeMap[name[t]] <= currentTime[t]
                 /\ elapsed'[t] >= 0
                 /\ elapsed'[t] <= now]_vars

====
